---- MODULE Spec2Model ----
(***************************************************************************)
(* SmoothLife on WebGL: the start-up script, the ping-pong render loop,    *)
(* the seed texture and the fragment shader (the neighbourhood kernel).    *)
(*                                                                         *)
(* Two variants of the program are in the repository and both are          *)
(* modelled: "main" (src/src/main.ts, R2 = 4, start-up failures are only   *)
(* logged) and "refactored" (src/unnamed/part_002 with the shader of       *)
(* part_003, R2 = 5, start-up failures throw).                             *)
(*                                                                         *)
(* Numbers.  A texel is the byte of the red channel (RGBA/UNSIGNED_BYTE).  *)
(* Shader floats are fixed point: states in units of 1/Unit, distances and *)
(* weights in units of 1/WUnit, rounded down.  The comparisons of the      *)
(* distance d with R1 and R2 are made exactly, on rationals.               *)
(***************************************************************************)
EXTENDS Integers, Sequences, FiniteSets, TLC

(* ------------------------------------------------------------------ *)
(* Bounds of the model                                                 *)
(* ------------------------------------------------------------------ *)
MaxTicks == 3
MaxFrameGap == 2
MaxW == 8
MaxH == 2

(* ------------------------------------------------------------------ *)
(* Fixed point                                                         *)
(* ------------------------------------------------------------------ *)
Unit == 10000
WUnit == 1000

Variants == {"main", "refactored"}

(* The shader constants of the two variants, thresholds in 1/Unit.     *)
Params(v) ==
    IF v = "main"
    THEN [R1 |-> 1, R2 |-> 4,
          B1 |-> (230 * Unit) \div 1000, B2 |-> (336 * Unit) \div 1000,
          D1 |-> (477 * Unit) \div 1000, D2 |-> (500 * Unit) \div 1000]
    ELSE [R1 |-> 1, R2 |-> 5,
          B1 |-> (220 * Unit) \div 1000, B2 |-> (330 * Unit) \div 1000,
          D1 |-> (470 * Unit) \div 1000, D2 |-> (490 * Unit) \div 1000]

weightFactor == 10

(* ------------------------------------------------------------------ *)
(* Arithmetic helpers                                                  *)
(* ------------------------------------------------------------------ *)
Abs(i) == IF i < 0 THEN -i ELSE i

Min(a, b) == IF a < b THEN a ELSE b

CeilDiv(p, q) == (p + q - 1) \div q

RECURSIVE SqrtSearch(_, _, _)
SqrtSearch(n, lo, hi) ==
    IF lo >= hi THEN lo
    ELSE LET mid == (lo + hi + 1) \div 2
         IN  IF mid * mid <= n THEN SqrtSearch(n, mid, hi)
                               ELSE SqrtSearch(n, lo, mid - 1)

(* floor(sqrt(n)) *)
ISqrt(n) == SqrtSearch(n, 0, Min(n, 10 * WUnit))

(* exp(-k) for whole k, in 1/WUnit *)
ExpNegWhole(k) ==
    LET tab == <<368, 135, 50, 18, 7, 2, 1>>
    IN  IF k = 0 THEN WUnit ELSE IF k <= Len(tab) THEN tab[k] ELSE 0

(* exp(-f/WUnit) for 0 <= f < WUnit, in 1/WUnit: the series to the 6th term *)
ExpNegFrac(f) ==
    LET t2 == (f * f) \div (2 * WUnit)
        t3 == (t2 * f) \div (3 * WUnit)
        t4 == (t3 * f) \div (4 * WUnit)
        t5 == (t4 * f) \div (5 * WUnit)
    IN  WUnit - f + t2 - t3 + t4 - t5

(* exp(-x/WUnit) in 1/WUnit, x >= 0 *)
ExpNeg(x) == (ExpNegWhole(x \div WUnit) * ExpNegFrac(x % WUnit)) \div WUnit

(* ------------------------------------------------------------------ *)
(* The fragment shader                                                 *)
(* ------------------------------------------------------------------ *)

(* the offset compared without the division by u_resolution *)
LengthLeUnnormalised(dx, dy, W, H, R) == dx * dx + dy * dy <= R * R

(* length(vec2(dx, dy) / u_resolution) <= R, exactly:                  *)
(* dx^2/W^2 + dy^2/H^2 <= R^2  <=>  ceil(dy^2 W^2 / H^2) <= R^2 W^2 - dx^2 *)
LengthLe(dx, dy, W, H, R) ==
    CeilDiv(dy * dy * W * W, H * H) <= R * R * W * W - dx * dx

(* d = length(vec2(dx, dy) / u_resolution), in 1/WUnit *)
Length(dx, dy, W, H) ==
    LET ox == (Abs(dx) * WUnit) \div W
        oy == (Abs(dy) * WUnit) \div H
    IN  ISqrt(ox * ox + oy * oy)

(* weight = exp(-d * weightFactor), in 1/WUnit.  A float keeps the weights  *)
(* of the outer ring, all below exp(-R1 * weightFactor), with their full    *)
(* relative precision; the fixed point holds them with the common factor    *)
(* exp(-base * weightFactor) taken out (base = R1 in the outer ring, 0 in   *)
(* the inner ring), which cancels in outerState / outerWeight and leaves    *)
(* the test outerWeight > 0 as it is.                                       *)
Weight(dx, dy, W, H, base) ==
    LET d == Length(dx, dy, W, H) - base * WUnit
    IN  ExpNeg((IF d < 0 THEN 0 ELSE d) * weightFactor)

(* The if / else-if chain of the loop body: which sum the offset joins *)
(* length(vec2(dx, dy) / u_resolution) < R, exactly *)
LengthLt(dx, dy, W, H, R) ==
    (dy * dy * W * W) \div (H * H) < R * R * W * W - dx * dx

(* the chain with < in the place of <= *)
RingStrict(dx, dy, W, H, p) ==
    IF LengthLt(dx, dy, W, H, p.R1) THEN "inner"
    ELSE IF LengthLt(dx, dy, W, H, p.R2) THEN "outer"
    ELSE "none"

Ring(dx, dy, W, H, p) ==
    IF LengthLe(dx, dy, W, H, p.R1) THEN "inner"
    ELSE IF LengthLe(dx, dy, W, H, p.R2) THEN "outer"
    ELSE "none"

(* CLAMP_TO_EDGE with NEAREST: the texel index of st + offset *)
ClampIndex(i, n) == IF i < 0 THEN 0 ELSE IF i > n - 1 THEN n - 1 ELSE i

(* texture2D(u_state, (cell + 0.5 + (dx, dy)) / u_resolution).r, in 1/Unit *)
Sample(tex, x, y, W, H) ==
    (tex[<<ClampIndex(x, W), ClampIndex(y, H)>>] * Unit) \div 255

ZeroAcc == [innerState |-> 0, outerState |-> 0, innerWeight |-> 0, outerWeight |-> 0]

(* One iteration of the double loop for the fragment at cell (cx, cy) *)
LoopBody(acc, tex, cx, cy, dx, dy, W, H, p) ==
    LET ring == Ring(dx, dy, W, H, p)
        s == Sample(tex, cx + dx, cy + dy, W, H)
    IN  IF ring = "inner"
        THEN LET weight == Weight(dx, dy, W, H, 0)
             IN  [acc EXCEPT !.innerState = @ + s * weight, !.innerWeight = @ + weight]
        ELSE IF ring = "outer"
        THEN LET weight == Weight(dx, dy, W, H, p.R1)
             IN  [acc EXCEPT !.outerState = @ + s * weight, !.outerWeight = @ + weight]
        ELSE acc

(* for (float y = -R2; y <= R2; y += stepSize): the inner loop from dy on *)
RECURSIVE LoopY(_, _, _, _, _, _, _, _, _)
LoopY(dy, acc, tex, cx, cy, dx, W, H, p) ==
    IF dy > p.R2 THEN acc
    ELSE LET next == LoopBody(acc, tex, cx, cy, dx, dy, W, H, p)
         IN  IF next.innerWeight >= 0
             THEN LoopY(dy + 1, next, tex, cx, cy, dx, W, H, p)
             ELSE next

(* for (float x = -R2; x <= R2; x += stepSize): the outer loop from dx on *)
RECURSIVE LoopX(_, _, _, _, _, _, _, _)
LoopX(dx, acc, tex, cx, cy, W, H, p) ==
    IF dx > p.R2 THEN acc
    ELSE LET next == LoopY(-p.R2, acc, tex, cx, cy, dx, W, H, p)
         IN  IF next.innerWeight >= 0
             THEN LoopX(dx + 1, next, tex, cx, cy, W, H, p)
             ELSE next

(* mix(a, b, 1.0) *)
MixOuterOnly(a, b) == b

(* mix(a, b, 0.5) *)
Mix(a, b) ==
    LET half == Unit \div 2 IN (a * (Unit - half) + b * half) \div Unit

(* smoothstep(e0, e1, x), in 1/Unit *)
Smoothstep(e0, e1, x) ==
    LET t == IF x <= e0 THEN 0
             ELSE IF x >= e1 THEN Unit
             ELSE ((x - e0) * Unit) \div (e1 - e0)
    IN  (((t * t) \div Unit) * (3 * Unit - 2 * t)) \div Unit

(* currentState * (1 - death) + birth: the factor (1 - currentState) left out *)
NextStateNoComplement(c, birth, death) ==
    (c * (Unit - death) + Unit * birth) \div Unit

(* nextState = currentState * (1 - death) + (1 - currentState) * birth *)

NextState(c, birth, death) ==
    (c * (Unit - death) + (Unit - c) * birth) \div Unit

(* After the loop: normalise, mix, threshold, combine *)
Finish(acc, current, p) ==
    LET innerState == IF acc.innerWeight > 0 THEN acc.innerState \div acc.innerWeight
                      ELSE acc.innerState
        outerState == IF acc.outerWeight > 0 THEN acc.outerState \div acc.outerWeight
                      ELSE acc.outerState
        neighborState == Mix(innerState, outerState)
        birth == Smoothstep(p.B1, p.B2, neighborState)
        death == Smoothstep(p.D1, p.D2, neighborState)
    IN  [currentState |-> current,
         innerWeight |-> acc.innerWeight, outerWeight |-> acc.outerWeight,
         innerState |-> innerState, outerState |-> outerState,
         neighborState |-> neighborState, birth |-> birth, death |-> death,
         nextState |-> NextState(current, birth, death)]

(* main() of the shader for the fragment at cell (cx, cy); u_time is an *)
(* input the shader never reads                                         *)
KernelCell(tex, cx, cy, W, H, time, p) ==
    Finish(LoopX(-p.R2, ZeroAcc, tex, cx, cy, W, H, p),
           Sample(tex, cx, cy, W, H), p)

(* gl_FragColor.r stored in an 8-bit channel: clamp to [0,1], round *)
ToByte(v) ==
    LET c == IF v < 0 THEN 0 ELSE IF v > Unit THEN Unit ELSE v
    IN  (c * 255 + Unit \div 2) \div Unit

Cells(W, H) == (0 .. W - 1) \X (0 .. H - 1)

(* drawArrays over the full-surface quad: one fragment per cell *)
KernelImage(tex, W, H, time, p) ==
    [c \in Cells(W, H) |-> ToByte(KernelCell(tex, c[1], c[2], W, H, time, p).nextState)]

(* ------------------------------------------------------------------ *)
(* createInitialStateTexture                                           *)
(* ------------------------------------------------------------------ *)

(* distance < radius for the disk centred at (cnum * width / 5, height / 2) *)
(* with radius = min(width, height) / 6; every length is held in 1/30:      *)
(* 30 * (x - cnum*W/5) = 30x - 6*cnum*W, 30 * (y - H/2) = 30y - 15H,        *)
(* 30 * radius = 5 * min(W, H)                                              *)
InDiskClosed(x, y, W, H, cnum) ==
    LET dx == 30 * x - 6 * cnum * W
        dy == 30 * y - 15 * H
        radius == 5 * Min(W, H)
    IN  dx * dx + dy * dy <= radius * radius

InDisk(x, y, W, H, cnum) ==
    LET dx == 30 * x - 6 * cnum * W
        dy == 30 * y - 15 * H
        radius == 5 * Min(W, H)
    IN  dx * dx + dy * dy < radius * radius

(* value = (distance1 < radius || distance2 < radius) ? 255 : 0 *)
SeedValue(x, y, W, H) ==
    IF InDisk(x, y, W, H, 2) \/ InDisk(x, y, W, H, 3) THEN 255 ELSE 0

(* The R channel of the data array uploaded into stateTextureA *)
SeedData(W, H) == [c \in Cells(W, H) |-> SeedValue(c[1], c[2], W, H)]

(* ------------------------------------------------------------------ *)
(* The program: start-up script and render loop                        *)
(* ------------------------------------------------------------------ *)
VARIABLES
    variant,          \* which of the two programs runs
    canvasW, canvasH, \* canvas.width, canvas.height (window.innerWidth/Height)
    pc,               \* position in the start-up script or in render
    gl,               \* "unset", "context" or "null"
    ext,              \* WEBGL_color_buffer_float: "unset", "present", "missing"
    vertexShader,     \* "unset", "shader" or "null"
    fragmentShader,   \* "unset", "shader" or "null"
    program,          \* "unset", "linked" or "unlinked"
    dataAllocated,    \* the Uint8Array of createInitialStateTexture exists
    textures,         \* the textures created so far, a subset of {"A", "B"}
    tex,              \* the red channel of each texture, cell -> byte
    written,          \* the textures that hold a completely written generation
    framebuffer,      \* the framebuffer object exists
    fbAttachment,     \* COLOR_ATTACHMENT0 of the framebuffer: "none", "A", "B"
    boundFramebuffer, \* "default" or "framebuffer"
    boundTexture,     \* TEXTURE_2D binding of unit 0: "none", "A", "B"
    readTexture,      \* "unset", "A", "B"
    writeTexture,     \* "unset", "A", "B"
    u_time,           \* the uniform, in milliseconds
    screen,           \* what the canvas shows, cell -> byte
    scheduled,        \* a requestAnimationFrame(render) callback is pending
    ticks,            \* render calls completed
    consoleErrors,    \* what console.error has logged
    thrown            \* the exception that ended the script, or "none"

progVars == <<variant, canvasW, canvasH, pc, gl, ext, vertexShader, fragmentShader,
              program, dataAllocated, textures, tex, written, framebuffer,
              fbAttachment, boundFramebuffer, boundTexture, readTexture,
              writeTexture, u_time, screen, scheduled, ticks, consoleErrors, thrown>>

(* One invocation of the fragment shader *)
VARIABLES
    kv,        \* the variant whose constants the shader has
    kW, kH,    \* u_resolution
    kgrid,     \* the contents of u_state, as a pattern
    kcx, kcy,  \* the cell of the fragment: gl_FragCoord.xy - 0.5
    kdx, kdy,  \* the loop variables x and y
    kacc,      \* innerState, outerState, innerWeight, outerWeight
    kbranch,   \* the branch the last iteration took
    klast,     \* the offset of the last iteration
    kout,      \* the values after the loop
    kpc        \* "off", "loop" or "done"

kernVars == <<kv, kW, kH, kgrid, kcx, kcy, kdx, kdy, kacc, kbranch, klast, kout, kpc>>

(* createInitialStateTexture *)
VARIABLES
    sW, sH,    \* width, height
    sx, sy,    \* the loop variables x and y
    sval,      \* data[(y * width + x) * 4], -1 before it is set
    spc        \* "off", "loop" or "done"

seedVars == <<sW, sH, sx, sy, sval, spc>>

Widths == {0, MaxW}
Heights == {0, MaxH}

Blank(W, H) == [c \in Cells(W, H) |-> 0]

(* console.error(msg) and go on (main), or throw new Error(msg) (refactored) *)
Fail(msg, goOn) ==
    IF variant = "main"
    THEN /\ consoleErrors' = consoleErrors \cup {msg}
         /\ thrown' = thrown
         /\ pc' = goOn
    ELSE /\ consoleErrors' = consoleErrors
         /\ thrown' = msg
         /\ pc' = "aborted"

(* An uncaught TypeError ends the script *)
TypeError ==
    /\ thrown' = "TypeError"
    /\ pc' = "aborted"
    /\ consoleErrors' = consoleErrors

Proceed(next) ==
    /\ pc' = next
    /\ UNCHANGED <<consoleErrors, thrown>>

ProgInit ==
    /\ variant \in Variants
    /\ canvasW \in Widths
    /\ canvasH \in Heights
    /\ pc = "getContext"
    /\ gl = "unset" /\ ext = "unset"
    /\ vertexShader = "unset" /\ fragmentShader = "unset" /\ program = "unset"
    /\ dataAllocated = FALSE
    /\ textures = {}
    /\ tex = [t \in {"A", "B"} |-> Blank(canvasW, canvasH)]
    /\ written = {}
    /\ framebuffer = FALSE
    /\ fbAttachment = "none"
    /\ boundFramebuffer = "default"
    /\ boundTexture = "none"
    /\ readTexture = "unset" /\ writeTexture = "unset"
    /\ u_time = 0
    /\ screen = Blank(canvasW, canvasH)
    /\ scheduled = FALSE
    /\ ticks = 0
    /\ consoleErrors = {}
    /\ thrown = "none"

(* canvas.getContext('webgl') and the check that follows *)
GetContext ==
    /\ pc = "getContext"
    /\ \E ok \in BOOLEAN :
         /\ gl' = IF ok THEN "context" ELSE "null"
         /\ IF ok THEN Proceed("getExtension")
                  ELSE Fail("WebGL not supported", "getExtension")
    /\ UNCHANGED <<kernVars, seedVars, variant, canvasW, canvasH, ext, vertexShader, fragmentShader,
                   program, dataAllocated, textures, tex, written, framebuffer,
                   fbAttachment, boundFramebuffer, boundTexture, readTexture,
                   writeTexture, u_time, screen, scheduled, ticks>>

(* gl.getExtension('WEBGL_color_buffer_float') and the check that follows; *)
(* on a null gl the call itself is a TypeError                             *)
GetExtension ==
    /\ pc = "getExtension"
    /\ IF gl = "null"
       THEN TypeError /\ ext' = ext
       ELSE \E present \in BOOLEAN :
              /\ ext' = IF present THEN "present" ELSE "missing"
              /\ IF present THEN Proceed("compileVertex")
                 ELSE Fail("WEBGL_color_buffer_float is not supported", "compileVertex")
    /\ UNCHANGED <<kernVars, seedVars, variant, canvasW, canvasH, gl, vertexShader, fragmentShader,
                   program, dataAllocated, textures, tex, written, framebuffer,
                   fbAttachment, boundFramebuffer, boundTexture, readTexture,
                   writeTexture, u_time, screen, scheduled, ticks>>

(* compileShader(gl, vertexShaderSource, gl.VERTEX_SHADER) *)
CompileVertex ==
    /\ pc = "compileVertex"
    /\ \E ok \in BOOLEAN :
         /\ vertexShader' = IF ok THEN "shader" ELSE "null"
         /\ IF ok THEN Proceed("compileFragment")
                  ELSE Fail("shader info log", "compileFragment")
    /\ UNCHANGED <<kernVars, seedVars, variant, canvasW, canvasH, gl, ext, fragmentShader,
                   program, dataAllocated, textures, tex, written, framebuffer,
                   fbAttachment, boundFramebuffer, boundTexture, readTexture,
                   writeTexture, u_time, screen, scheduled, ticks>>

(* compileShader(gl, fragmentShaderSource, gl.FRAGMENT_SHADER) *)
CompileFragment ==
    /\ pc = "compileFragment"
    /\ \E ok \in BOOLEAN :
         /\ fragmentShader' = IF ok THEN "shader" ELSE "null"
         /\ IF ok THEN Proceed("linkProgram")
                  ELSE Fail("shader info log", "linkProgram")
    /\ UNCHANGED <<kernVars, seedVars, variant, canvasW, canvasH, gl, ext, vertexShader,
                   program, dataAllocated, textures, tex, written, framebuffer,
                   fbAttachment, boundFramebuffer, boundTexture, readTexture,
                   writeTexture, u_time, screen, scheduled, ticks>>

(* createProgram, attachShader twice, linkProgram, the LINK_STATUS check,  *)
(* useProgram and the quad's vertex buffer.  attachShader(program, null)   *)
(* is a TypeError in a browser that follows the WebIDL and an              *)
(* INVALID_VALUE error in one that does not: then the link fails.          *)
LinkProgram ==
    /\ pc = "linkProgram"
    /\ IF vertexShader = "null" \/ fragmentShader = "null"
       THEN \E throws \in BOOLEAN :
              IF throws THEN TypeError /\ program' = program
              ELSE /\ program' = "unlinked"
                   /\ Fail("program info log", "createTextureA")
       ELSE \E ok \in BOOLEAN :
              /\ program' = IF ok THEN "linked" ELSE "unlinked"
              /\ IF ok THEN Proceed("createTextureA")
                       ELSE Fail("program info log", "createTextureA")
    /\ UNCHANGED <<kernVars, seedVars, variant, canvasW, canvasH, gl, ext, vertexShader, fragmentShader,
                   dataAllocated, textures, tex, written, framebuffer,
                   fbAttachment, boundFramebuffer, boundTexture, readTexture,
                   writeTexture, u_time, screen, scheduled, ticks>>

(* stateTextureA = createInitialStateTexture(gl, canvas.width, canvas.height): *)
(* the data array, the two disks, createTexture, texImage2D with the data      *)
CreateTextureA ==
    /\ pc = "createTextureA"
    /\ dataAllocated' = TRUE
    /\ textures' = textures \cup {"A"}
    /\ tex' = [tex EXCEPT !["A"] = SeedData(canvasW, canvasH)]
    /\ written' = written \cup {"A"}
    /\ boundTexture' = "A"
    /\ Proceed("createTextureB")
    /\ UNCHANGED <<kernVars, seedVars, variant, canvasW, canvasH, gl, ext, vertexShader, fragmentShader,
                   program, framebuffer, fbAttachment, boundFramebuffer,
                   readTexture, writeTexture, u_time, screen, scheduled, ticks>>

(* stateTextureB: createTexture, texImage2D with null (WebGL zero-fills it) *)
CreateTextureB ==
    /\ pc = "createTextureB"
    /\ textures' = textures \cup {"B"}
    /\ tex' = [tex EXCEPT !["B"] = Blank(canvasW, canvasH)]
    /\ boundTexture' = "B"
    /\ Proceed("createFramebuffer")
    /\ UNCHANGED <<kernVars, seedVars, variant, canvasW, canvasH, gl, ext, vertexShader, fragmentShader,
                   program, dataAllocated, written, framebuffer, fbAttachment,
                   boundFramebuffer, readTexture, writeTexture, u_time, screen,
                   scheduled, ticks>>

(* checkFramebufferStatus: an RGBA/UNSIGNED_BYTE texture as COLOR_ATTACHMENT0 *)
(* is complete in WebGL unless the attachment has a zero width or height      *)
FramebufferComplete == canvasW > 0 /\ canvasH > 0

(* createFramebuffer, bindFramebuffer, framebufferTexture2D(stateTextureB), *)
(* and the status check                                                     *)
CreateFramebuffer ==
    /\ pc = "createFramebuffer"
    /\ framebuffer' = TRUE
    /\ boundFramebuffer' = "framebuffer"
    /\ fbAttachment' = "B"
    /\ IF FramebufferComplete THEN Proceed("startLoop")
                              ELSE Fail("Framebuffer is incomplete", "startLoop")
    /\ UNCHANGED <<kernVars, seedVars, variant, canvasW, canvasH, gl, ext, vertexShader, fragmentShader,
                   program, dataAllocated, textures, tex, written, boundTexture,
                   readTexture, writeTexture, u_time, screen, scheduled, ticks>>

(* readTexture = stateTextureA, writeTexture = stateTextureB, the uniform *)
(* locations, and the first requestAnimationFrame(render)                 *)
StartLoop ==
    /\ pc = "startLoop"
    /\ readTexture' = "A"
    /\ writeTexture' = "B"
    /\ scheduled' = TRUE
    /\ Proceed("idle")
    /\ UNCHANGED <<kernVars, seedVars, variant, canvasW, canvasH, gl, ext, vertexShader, fragmentShader,
                   program, dataAllocated, textures, tex, written, framebuffer,
                   fbAttachment, boundFramebuffer, boundTexture, u_time, screen, ticks>>

(* A draw call runs the program only if one is in use; into the framebuffer *)
(* only if that is complete and its attachment is not the texture sampled   *)
CanDraw ==
    /\ program = "linked"
    /\ boundFramebuffer = "framebuffer" =>
         /\ FramebufferComplete
         /\ fbAttachment \in textures
         /\ fbAttachment # boundTexture
    /\ boundTexture \in textures

(* What drawArrays of the quad produces when the sampler reads texture t *)
DrawArrays(t) ==
    KernelImage(tex[t], canvasW, canvasH, u_time, Params(variant))

(* the draw sampling the texture it renders into *)
ComputeOutputInPlace == DrawArrays(fbAttachment)

(* The first drawArrays of render: u_state is unit 0, bound to boundTexture *)
ComputeOutput == DrawArrays(boundTexture)

(* a pass that copies the bound texture to the screen *)
ScreenOutputCopy == tex[boundTexture]

(* a screen pass after bindTexture(readTexture), the texture current *)
(* after the swap                                                     *)
ScreenOutputRebound == DrawArrays(readTexture)

(* The second drawArrays of render: same program, same binding of unit 0 *)
ScreenOutput == DrawArrays(boundTexture)

(* render(time), up to the first drawArrays: the uniforms, bindFramebuffer, *)
(* framebufferTexture2D(writeTexture), bindTexture(readTexture)             *)
RenderBind ==
    /\ pc = "idle"
    /\ scheduled
    /\ ticks < MaxTicks
    /\ \E gap \in 1 .. MaxFrameGap : u_time' = u_time + gap
    /\ scheduled' = FALSE
    /\ boundFramebuffer' = "framebuffer"
    /\ fbAttachment' = writeTexture
    /\ boundTexture' = readTexture
    /\ Proceed("compute")
    /\ UNCHANGED <<kernVars, seedVars, variant, canvasW, canvasH, gl, ext, vertexShader, fragmentShader,
                   program, dataAllocated, textures, tex, written, framebuffer,
                   readTexture, writeTexture, screen, ticks>>

(* gl.drawArrays(gl.TRIANGLE_STRIP, 0, 4) into the framebuffer *)
ComputeDraw ==
    /\ pc = "compute"
    /\ IF CanDraw
       THEN /\ tex' = [tex EXCEPT ![fbAttachment] = ComputeOutput]
            /\ written' = written \cup {fbAttachment}
       ELSE UNCHANGED <<tex, written>>
    /\ Proceed("swap")
    /\ UNCHANGED <<kernVars, seedVars, variant, canvasW, canvasH, gl, ext, vertexShader, fragmentShader,
                   program, dataAllocated, textures, framebuffer, fbAttachment,
                   boundFramebuffer, boundTexture, readTexture, writeTexture,
                   u_time, screen, scheduled, ticks>>

(* readTexture = writeTexture; writeTexture = readTexture *)
SwapSequential(r, w) == <<w, w>>

(* [readTexture, writeTexture] = [writeTexture, readTexture] *)
SwapPair(r, w) == <<w, r>>

SwapTextures ==
    /\ pc = "swap"
    /\ readTexture' = SwapPair(readTexture, writeTexture)[1]
    /\ writeTexture' = SwapPair(readTexture, writeTexture)[2]
    /\ Proceed("screen")
    /\ UNCHANGED <<kernVars, seedVars, variant, canvasW, canvasH, gl, ext, vertexShader, fragmentShader,
                   program, dataAllocated, textures, tex, written, framebuffer,
                   fbAttachment, boundFramebuffer, boundTexture, u_time, screen,
                   scheduled, ticks>>

(* gl.bindFramebuffer(gl.FRAMEBUFFER, null); gl.drawArrays(...) *)
ScreenDraw ==
    /\ pc = "screen"
    /\ boundFramebuffer' = "default"
    /\ screen' = IF program = "linked" /\ boundTexture \in textures
                 THEN ScreenOutput ELSE screen
    /\ Proceed("schedule")
    /\ UNCHANGED <<kernVars, seedVars, variant, canvasW, canvasH, gl, ext, vertexShader, fragmentShader,
                   program, dataAllocated, textures, tex, written, framebuffer,
                   fbAttachment, boundTexture, readTexture, writeTexture, u_time,
                   scheduled, ticks>>

(* requestAnimationFrame(render) at the end of render *)
ScheduleNext ==
    /\ pc = "schedule"
    /\ scheduled' = TRUE
    /\ ticks' = ticks + 1
    /\ Proceed("idle")
    /\ UNCHANGED <<kernVars, seedVars, variant, canvasW, canvasH, gl, ext, vertexShader, fragmentShader,
                   program, dataAllocated, textures, tex, written, framebuffer,
                   fbAttachment, boundFramebuffer, boundTexture, readTexture,
                   writeTexture, u_time, screen>>

ProgNext ==
    \/ GetContext
    \/ GetExtension
    \/ CompileVertex
    \/ CompileFragment
    \/ LinkProgram
    \/ CreateTextureA
    \/ CreateTextureB
    \/ CreateFramebuffer
    \/ StartLoop
    \/ RenderBind
    \/ ComputeDraw
    \/ SwapTextures
    \/ ScreenDraw
    \/ ScheduleNext

(* no program runs: the state of the program while a shader invocation or *)
(* the seed loop is looked at on its own                                  *)
ProgOff ==
    /\ variant = "main" /\ canvasW = 0 /\ canvasH = 0
    /\ pc = "off"
    /\ gl = "unset" /\ ext = "unset"
    /\ vertexShader = "unset" /\ fragmentShader = "unset" /\ program = "unset"
    /\ dataAllocated = FALSE /\ textures = {}
    /\ tex = [t \in {"A", "B"} |-> Blank(0, 0)]
    /\ written = {} /\ framebuffer = FALSE /\ fbAttachment = "none"
    /\ boundFramebuffer = "default" /\ boundTexture = "none"
    /\ readTexture = "unset" /\ writeTexture = "unset"
    /\ u_time = 0 /\ screen = Blank(0, 0)
    /\ scheduled = FALSE /\ ticks = 0 /\ consoleErrors = {} /\ thrown = "none"

(* ------------------------------------------------------------------ *)
(* One invocation of the fragment shader, an iteration at a time       *)
(* ------------------------------------------------------------------ *)
MaxProbeArea == 100

(* The resolutions the shader is run at *)
KernelSizes ==
    {<<1, 1>>, <<3, 2>>, <<4, 4>>, <<5, 5>>, <<8, 2>>,
     <<8, 8>>, <<10, 10>>, <<8, 600>>, <<800, 8>>, <<800, 600>>}

FillBytes == {0, 102, 204, 255}

(* The textures the shader is run on *)
Patterns ==
    {<<"fill", b>> : b \in FillBytes} \cup {<<"seed", 0>>, <<"checker", 0>>}

PatternTexel(g, x, y, W, H) ==
    CASE g[1] = "fill" -> g[2]
      [] g[1] = "seed" -> SeedValue(x, y, W, H)
      [] g[1] = "checker" -> IF (x + y) % 2 = 0 THEN 255 ELSE 0

PatternTexture(g, W, H) == [c \in Cells(W, H) |-> PatternTexel(g, c[1], c[2], W, H)]

(* The fragments looked at: every cell of a small grid, else the corners, *)
(* the centre and a cell on the rim of the left disk                      *)
ProbeCells(W, H) ==
    IF W * H <= MaxProbeArea THEN Cells(W, H)
    ELSE {<<0, 0>>, <<W - 1, 0>>, <<0, H - 1>>, <<W - 1, H - 1>>,
          <<W \div 2, H \div 2>>, <<(2 * W) \div 5 - Min(W, H) \div 6, H \div 2>>}

ZeroOut ==
    [currentState |-> 0, innerWeight |-> 0, outerWeight |-> 0, innerState |-> 0,
     outerState |-> 0, neighborState |-> 0, birth |-> 0, death |-> 0, nextState |-> 0]

KernOff ==
    /\ kv = "main" /\ kW = 0 /\ kH = 0 /\ kgrid = <<"fill", 0>>
    /\ kcx = 0 /\ kcy = 0 /\ kdx = 0 /\ kdy = 0
    /\ kacc = ZeroAcc /\ kbranch = "start" /\ klast = <<0, 0>>
    /\ kout = ZeroOut /\ kpc = "off"

KernInit ==
    /\ kv \in Variants
    /\ \E size \in KernelSizes :
         /\ kW = size[1] /\ kH = size[2]
         /\ \E cell \in ProbeCells(size[1], size[2]) : kcx = cell[1] /\ kcy = cell[2]
    /\ kgrid \in Patterns
    /\ kdx = -Params(kv).R2
    /\ kdy = -Params(kv).R2
    /\ kacc = ZeroAcc
    /\ kbranch = "start"
    /\ klast = <<0, 0>>
    /\ kout = ZeroOut
    /\ kpc = "loop"

(* One iteration of the inner loop body, and the step of the loop variables *)
KLoopStep ==
    /\ kpc = "loop"
    /\ kdx <= Params(kv).R2
    /\ kacc' = LoopBody(kacc, PatternTexture(kgrid, kW, kH), kcx, kcy, kdx, kdy,
                        kW, kH, Params(kv))
    /\ kbranch' = Ring(kdx, kdy, kW, kH, Params(kv))
    /\ klast' = <<kdx, kdy>>
    /\ IF kdy < Params(kv).R2
       THEN kdy' = kdy + 1 /\ kdx' = kdx
       ELSE kdy' = -Params(kv).R2 /\ kdx' = kdx + 1
    /\ UNCHANGED <<progVars, seedVars, kv, kW, kH, kgrid, kcx, kcy, kout, kpc>>

(* The statements after the loop *)
KFinish ==
    /\ kpc = "loop"
    /\ kdx > Params(kv).R2
    /\ kout' = Finish(kacc, Sample(PatternTexture(kgrid, kW, kH), kcx, kcy, kW, kH),
                      Params(kv))
    /\ kpc' = "done"
    /\ UNCHANGED <<progVars, seedVars, kv, kW, kH, kgrid, kcx, kcy, kdx, kdy, kacc, kbranch, klast>>

(* ------------------------------------------------------------------ *)
(* createInitialStateTexture, a cell at a time                         *)
(* ------------------------------------------------------------------ *)
(* The sizes the seed is made for *)
SeedSizes == {<<100, 100>>, <<30, 30>>, <<8, 2>>, <<12, 7>>}

SeedOff == sW = 0 /\ sH = 0 /\ sx = 0 /\ sy = 0 /\ sval = -1 /\ spc = "off"

SeedInit ==
    /\ \E size \in SeedSizes :
         /\ sW = size[1] /\ sH = size[2]
         /\ \E cell \in Cells(size[1], size[2]) : sx = cell[1] /\ sy = cell[2]
    /\ sval = -1
    /\ spc = "loop"

(* The body of the double loop for the cell (sx, sy) *)
SeedCell ==
    /\ spc = "loop"
    /\ sval' = SeedValue(sx, sy, sW, sH)
    /\ spc' = "done"
    /\ UNCHANGED <<progVars, kernVars, sW, sH, sx, sy>>

(* ------------------------------------------------------------------ *)
(* Specifications                                                      *)
(* ------------------------------------------------------------------ *)
vars == <<progVars, kernVars, seedVars>>

(* The program *)
Init == ProgInit /\ KernOff /\ SeedOff

Next == ProgNext

Spec == Init /\ [][Next]_vars

(* The shader alone *)
KernelInit == ProgOff /\ KernInit /\ SeedOff

KernelNext == KLoopStep \/ KFinish

SpecKernel == KernelInit /\ [][KernelNext]_vars

(* The seed alone *)
SeedSpecInit == ProgOff /\ KernOff /\ SeedInit

SeedNext == SeedCell

SpecSeed == SeedSpecInit /\ [][SeedNext]_vars

(* ------------------------------------------------------------------ *)
(* Properties                                                          *)
(* ------------------------------------------------------------------ *)
InLoop == pc \in {"idle", "compute", "swap", "screen", "schedule"}

(* C1: in every state of the render loop readTexture and writeTexture are  *)
(* the two distinct textures A and B; at the compute draw the framebuffer's *)
(* attachment is writeTexture, the sampled texture is readTexture, and the  *)
(* two differ; the roles have been exchanged once per tick: after n swaps   *)
(* readTexture is A when n is even and B when n is odd.                     *)
C1_PingPong ==
    InLoop =>
      /\ readTexture # writeTexture
      /\ {readTexture, writeTexture} = {"A", "B"}
      /\ LET swaps == ticks + (IF pc \in {"screen", "schedule"} THEN 1 ELSE 0)
         IN  readTexture = IF swaps % 2 = 0 THEN "A" ELSE "B"
      /\ pc = "compute" =>
           /\ fbAttachment = writeTexture
           /\ boundTexture = readTexture
           /\ fbAttachment # boundTexture

(* C1 witness: the compute draw of the second tick, B read and A written *)
C1_Witness ==
    /\ pc = "compute" /\ ticks = 1 /\ CanDraw
    /\ boundTexture = "B" /\ fbAttachment = "A"
    /\ readTexture = "B" /\ writeTexture = "A"

(* C2: a compute draw that executes samples readTexture, which holds a     *)
(* completely written generation, and writes writeTexture, another         *)
(* texture; every cell written is the kernel of the contents readTexture   *)
(* had before the draw, whatever the value of u_time; readTexture is left  *)
(* as it was.                                                              *)
C2_StepFromGenerationN ==
    [][(pc = "compute" /\ pc' = "swap" /\ CanDraw) =>
         /\ boundTexture = readTexture
         /\ fbAttachment = writeTexture
         /\ readTexture # writeTexture
         /\ readTexture \in written
         /\ tex'[writeTexture] =
              KernelImage(tex[readTexture], canvasW, canvasH, 0, Params(variant))
         /\ tex'[readTexture] = tex[readTexture]
         /\ writeTexture \in written']_vars

(* C2 witness: the second tick samples B, which the first tick has written *)
C2_Witness ==
    /\ pc = "compute" /\ CanDraw /\ ticks = 1
    /\ boundTexture = "B" /\ "B" \in written
    /\ tex["B"] # Blank(canvasW, canvasH)
    /\ tex["B"] # tex["A"]

(* C3: after the screen draw of a tick the canvas shows the contents of the *)
(* texture that is current after the swap, the one the tick has written.    *)
C3_ShowsNewGeneration ==
    (pc = "schedule" /\ program = "linked") => screen = tex[readTexture]

(* C3 witness: a tick whose new generation differs from the one before it *)
C3_Witness ==
    /\ pc = "schedule" /\ program = "linked" /\ ticks = 1
    /\ readTexture \in written
    /\ screen = tex[readTexture]
    /\ screen # tex[writeTexture]

(* C6: with width <= 0 or height <= 0 nothing is allocated and the loop is *)
(* never started.                                                          *)
C6_DegenerateRejected ==
    (canvasW <= 0 \/ canvasH <= 0) =>
      /\ ~dataAllocated
      /\ textures = {}
      /\ ~framebuffer
      /\ ~scheduled
      /\ ~InLoop

StartupFailed ==
    \/ gl = "null"
    \/ ext = "missing"
    \/ vertexShader = "null"
    \/ fragmentShader = "null"
    \/ program = "unlinked"
    \/ framebuffer /\ ~FramebufferComplete

(* C7: once a start-up resource has failed, render is never scheduled and *)
(* the loop is never entered.                                             *)
C7_FailureAborts == StartupFailed => (~scheduled /\ ~InLoop)

(* C8: an iteration of the loop adds the offset to the inner sums iff      *)
(* d <= R1, to the outer sums iff R1 < d <= R2, to neither iff d > R2, and *)
(* never to both.                                                          *)
C8_RingPartition ==
    [][(kpc = "loop" /\ kpc' = "loop" /\ <<kdx, kdy>>' # <<kdx, kdy>>) =>
         LET p == Params(kv)
             inR1 == LengthLe(kdx, kdy, kW, kH, p.R1)
             inR2 == LengthLe(kdx, kdy, kW, kH, p.R2)
             s == Sample(PatternTexture(kgrid, kW, kH), kcx + kdx, kcy + kdy, kW, kH)
         IN  /\ kbranch' = "inner" <=> inR1
             /\ kbranch' = "outer" <=> (~inR1 /\ inR2)
             /\ kbranch' = "none" <=> ~inR2
             /\ inR1 =>
                  /\ kacc'.innerWeight = kacc.innerWeight + Weight(kdx, kdy, kW, kH, 0)
                  /\ kacc'.innerState =
                       kacc.innerState + s * Weight(kdx, kdy, kW, kH, 0)
                  /\ kacc'.outerWeight = kacc.outerWeight
                  /\ kacc'.outerState = kacc.outerState
             /\ (~inR1 /\ inR2) =>
                  /\ kacc'.outerWeight =
                       kacc.outerWeight + Weight(kdx, kdy, kW, kH, p.R1)
                  /\ kacc'.outerState =
                       kacc.outerState + s * Weight(kdx, kdy, kW, kH, p.R1)
                  /\ kacc'.innerWeight = kacc.innerWeight
                  /\ kacc'.innerState = kacc.innerState
             /\ ~inR2 => kacc' = kacc]_vars

(* C8 witness: at 800 x 600 with R2 = 4 the loop has ended with every *)
(* offset in the inner sums                                            *)
C8_Witness ==
    /\ kpc = "done" /\ kW = 800 /\ kH = 600 /\ kv = "main"
    /\ kbranch = "inner" /\ klast = <<4, 4>>
    /\ kout.innerWeight > 0 /\ kout.outerWeight = 0

(* C9: on the 10 x 10 grid of cells all 1.0, with the constants of main.ts, *)
(* the kernel gives 0.0 in every cell.                                      *)
C9_AllAliveCollapses ==
    (kpc = "done" /\ kv = "main" /\ kW = 10 /\ kH = 10 /\ kgrid = <<"fill", 255>>) =>
      /\ kout.currentState = Unit
      /\ kout.nextState = 0
      /\ ToByte(kout.nextState) = 0

(* C9 witness: the corner cell, whose neighbourhood is clamped on two sides *)
C9_Witness ==
    /\ kpc = "done" /\ kv = "main" /\ kW = 10 /\ kH = 10 /\ kgrid = <<"fill", 255>>
    /\ kcx = 9 /\ kcy = 0
    /\ kout.death = Unit /\ kout.nextState = 0

(* C4: the values the kernel combines are in [0,1] and so is its output. *)
C4_Range ==
    kpc = "done" =>
      /\ kout.currentState \in 0 .. Unit
      /\ kout.birth \in 0 .. Unit
      /\ kout.death \in 0 .. Unit
      /\ kout.nextState \in 0 .. Unit

(* C4 witness: a cell partly alive, with a birth term, that ends inside (0,1) *)
C4_Witness ==
    /\ kpc = "done"
    /\ kout.currentState > 0 /\ kout.currentState < Unit
    /\ kout.birth > 0
    /\ kout.nextState > 0 /\ kout.nextState < Unit

(* C10: at a resolution of at least 8 x 8 every iteration takes the inner  *)
(* branch, the outer sums stay 0, the guard leaves outerState 0, and       *)
(* neighborState is half of innerState, at most 0.5.                       *)
C10_InnerOnly ==
    (kW >= 8 /\ kH >= 8) =>
      /\ kbranch \in {"start", "inner"}
      /\ kacc.outerWeight = 0
      /\ kacc.outerState = 0
      /\ kpc = "done" =>
           /\ kout.innerWeight > 0
           /\ kout.outerWeight = 0
           /\ kout.outerState = 0
           /\ kout.innerState <= Unit
           /\ kout.neighborState = (kout.innerState * (Unit \div 2)) \div Unit
           /\ kout.neighborState <= Unit \div 2

(* C10 witness: 8 x 8 with R2 = 5, the farthest offset, all cells alive *)
C10_Witness ==
    /\ kpc = "done" /\ kv = "refactored" /\ kW = 8 /\ kH = 8
    /\ klast = <<5, 5>> /\ kbranch = "inner"
    /\ kgrid = <<"fill", 255>>
    /\ kout.neighborState = Unit \div 2

(* The disk test of the seed, on the cell's index (x, y): 900 times         *)
(* (x - cnum W/5)^2 + (y - H/2)^2 < (min(W,H)/6)^2                          *)
IndexInDisk(x, y, W, H, cnum) ==
    36 * (5 * x - cnum * W) * (5 * x - cnum * W)
      + 225 * (2 * y - H) * (2 * y - H)
    < 25 * Min(W, H) * Min(W, H)

(* The same test on the pixel centre (x + 1/2, y + 1/2), 3600 times *)
CentreInDisk(x, y, W, H, cnum) ==
    36 * (10 * x + 5 - 2 * cnum * W) * (10 * x + 5 - 2 * cnum * W)
      + 225 * (4 * y + 2 - 2 * H) * (4 * y + 2 - 2 * H)
    < 100 * Min(W, H) * Min(W, H)

(* C5, as amended: the cell (x, y) is 255 exactly when the distance from   *)
(* its index (x, y) to (2W/5, H/2) or to (3W/5, H/2) is less than          *)
(* min(W,H)/6, and 0 otherwise; for W = H = 100 exactly the cells with     *)
(* (x, y) within 100/6 of (40, 50) or (60, 50).                            *)
C5_SeedByIndex ==
    spc = "done" =>
      /\ sval \in {0, 255}
      /\ sval = 255 <=> (IndexInDisk(sx, sy, sW, sH, 2) \/ IndexInDisk(sx, sy, sW, sH, 3))
      /\ (sW = 100 /\ sH = 100) =>
           (sval = 255 <=>
              \/ 9 * ((sx - 40) * (sx - 40) + (sy - 50) * (sy - 50)) < 2500
              \/ 9 * ((sx - 60) * (sx - 60) + (sy - 50) * (sy - 50)) < 2500)

(* C5 witness: (24, 50) at 100 x 100, 16 from (40, 50): alive *)
C5_Witness ==
    /\ spc = "done" /\ sW = 100 /\ sH = 100
    /\ sx = 24 /\ sy = 50 /\ sval = 255

(* C5, as claimed: the distance is that of the pixel centre *)
C5_SeedByPixelCentre ==
    spc = "done" =>
      (sval = 255 <=>
         (CentreInDisk(sx, sy, sW, sH, 2) \/ CentreInDisk(sx, sy, sW, sH, 3)))

(* C11: from the compute draw to the end of the tick texture unit 0 keeps   *)
(* the texture bound by bindTexture(readTexture), the pre-swap readTexture; *)
(* the screen draw is made with the default framebuffer bound, samples that *)
(* texture (writeTexture after the swap) and draws the kernel of its        *)
(* contents, writing no texture; the texture written in the tick, the       *)
(* framebuffer's attachment, is not the bound texture until the bindTexture *)
(* of the next render call, which attaches the other texture first, so the  *)
(* bound texture is never the attachment.                                   *)
C11_ScreenSamplesPreSwap ==
    [][/\ (pc \in {"compute", "swap", "screen"}) =>
            /\ boundTexture' = boundTexture
            /\ fbAttachment' = fbAttachment
       /\ (pc = "compute") => boundTexture = readTexture
       /\ (pc = "screen" /\ pc' = "schedule") =>
            /\ boundTexture = writeTexture
            /\ boundTexture # readTexture
            /\ fbAttachment = readTexture
            /\ boundFramebuffer' = "default"
            /\ tex' = tex
            /\ (program = "linked" /\ boundTexture \in textures) =>
                 screen' = KernelImage(tex[writeTexture], canvasW, canvasH, 0,
                                       Params(variant))
       /\ (pc = "idle" /\ pc' = "compute" /\ ticks >= 1) =>
            /\ boundTexture' = fbAttachment
            /\ fbAttachment' = boundTexture
       /\ (InLoop /\ (pc # "idle" \/ ticks >= 1)) => boundTexture # fbAttachment
       /\ (InLoop' /\ pc' # "idle") => boundTexture' # fbAttachment']_vars

(* C11 witness: the end of the second tick: B sampled by both draws, A      *)
(* written, the canvas showing the kernel of B and not B itself             *)
C11_Witness ==
    /\ pc = "schedule" /\ ticks = 1 /\ CanDraw
    /\ boundTexture = "B" /\ fbAttachment = "A"
    /\ readTexture = "A" /\ writeTexture = "B"
    /\ boundFramebuffer = "default"
    /\ screen = KernelImage(tex["B"], canvasW, canvasH, 0, Params(variant))
    /\ screen # tex["B"]

====
